---- MODULE Spec2Model ----
(***************************************************************************)
(* Heap file layer (src/heapfile.C): createHeapFile / destroyHeapFile,     *)
(* HeapFile, HeapFileScan and InsertFileScan over one file, with the pin   *)
(* accounting of the buffer pool they call.  Page, BufMgr and DB are       *)
(* collaborators whose code is not part of heapfile.C; they are modelled   *)
(* from their interface description.                                       *)
(***************************************************************************)
EXTENDS Integers, Sequences, FiniteSets, TLC

\* ---------------------------------------------------------------- bounds
\* data pages a file may hold
MaxPages == 3
\* deleteRecord calls made at a position that holds no live record
MaxBadDeletes == 1
\* open handles of the file the DB layer hands out before openFile is no longer called
MaxOpen == 2

\* ------------------------------------------------------------- constants
\* headerPageNo = 1
HeaderPageNo == 1
\* "no page": firstPage / lastPage / nextPage of an empty chain
NoPage == -1
\* scaled PAGESIZE - DPFIXED: the bytes of a data page open to records and slots
PageCap == 10
\* scaled size of one slot-directory entry
SlotEntrySize == 1
\* sizeof(int), sizeof(float)
IntSize == 4

\* a null Page*
NULL == 0
\* a null filter pointer
NoFilter == << >>

FirstDataPage == HeaderPageNo + 1
MaxPageNo     == HeaderPageNo + MaxPages
DataPageNos   == FirstDataPage .. MaxPageNo
PageNos       == HeaderPageNo .. MaxPageNo
\* a page number that names no page of the file
BadPageNo     == MaxPageNo + 1

\* ----------------------------------------------------------------- RIDs
Rid(p, s) == [pageNo |-> p, slotNo |-> s]
NULLRID   == Rid(-1, -1)

\* --------------------------------------------------------------- records
Rec(bytes) == [length |-> Len(bytes), data |-> bytes]
\* a deleted slot: length -1
Deleted == [length |-> -1, data |-> << >>]
RecA     == Rec(<<1, 0, 0, 0>>)
RecB     == Rec(<<2, 0, 0, 0>>)
RecShort == Rec(<<1, 0>>)
\* a record longer than any page can hold (only its length is looked at)
RecHuge  == [length |-> PageCap + 1, data |-> << >>]

\* ------------------------------------------------------------------ Page
\* A data page: its slot directory (slot number i is slots[i+1]) and chain link.
MkPage(slots, next) == [slots |-> slots, nextPage |-> next]
EmptyPage == MkPage(<< >>, NoPage)

IsLive(s) == s.length # -1
SlotNos(pg) == 0 .. (Len(pg.slots) - 1)
LiveSlots(pg) == {i \in SlotNos(pg) : IsLive(pg.slots[i + 1])}
MinOf(S) == CHOOSE x \in S : \A y \in S : x <= y

RECURSIVE SumLen(_)
SumLen(slots) ==
    IF slots = << >> THEN 0
    ELSE (IF IsLive(Head(slots)) THEN Head(slots).length ELSE 0) + SumLen(Tail(slots))

\* free space = PAGESIZE - DPFIXED - sum(active record lengths) - slots * entry size
Page_freeSpace(pg) == PageCap - SumLen(pg.slots) - Len(pg.slots) * SlotEntrySize

\* firstRecord: lowest live slot, or NORECORDS
Page_firstRecord(pg, pno) ==
    IF LiveSlots(pg) = {} THEN [status |-> "NORECORDS", rid |-> NULLRID]
    ELSE [status |-> "OK", rid |-> Rid(pno, MinOf(LiveSlots(pg)))]

\* nextRecord: next live slot strictly after curRid.slotNo, or NORECORDS
Page_nextRecord(pg, pno, curRid) ==
    LET after == {i \in LiveSlots(pg) : i > curRid.slotNo} IN
    IF after = {} THEN [status |-> "NORECORDS", rid |-> NULLRID]
    ELSE [status |-> "OK", rid |-> Rid(pno, MinOf(after))]

\* getRecord: the slot must be in the directory and live
Page_getRecord(pg, rid) ==
    IF rid.slotNo \in LiveSlots(pg)
    THEN [status |-> "OK", rec |-> pg.slots[rid.slotNo + 1]]
    ELSE [status |-> "INVALIDSLOTNO", rec |-> Deleted]

\* deleteRecord: marks the slot deleted; the slot count shrinks only when the
\* slot is the last one
Page_deleteRecord(pg, rid) ==
    IF rid.slotNo \in LiveSlots(pg)
    THEN [status |-> "OK",
          page   |-> IF rid.slotNo = Len(pg.slots) - 1
                     THEN [pg EXCEPT !.slots = SubSeq(pg.slots, 1, Len(pg.slots) - 1)]
                     ELSE [pg EXCEPT !.slots[rid.slotNo + 1] = Deleted]]
    ELSE [status |-> "INVALIDSLOTNO", page |-> pg]

\* insertRecord: smallest available slot number, or NOSPACE
Page_insertRecord(pg, rec) ==
    LET dead == {i \in SlotNos(pg) : ~IsLive(pg.slots[i + 1])}
        need == rec.length + (IF dead = {} THEN SlotEntrySize ELSE 0)
    IN  IF need > Page_freeSpace(pg)
        THEN [status |-> "NOSPACE", page |-> pg, slotNo |-> -1]
        ELSE IF dead = {}
             THEN [status |-> "OK", page |-> [pg EXCEPT !.slots = Append(pg.slots, rec)],
                   slotNo |-> Len(pg.slots)]
             ELSE [status |-> "OK", page |-> [pg EXCEPT !.slots[MinOf(dead) + 1] = rec],
                   slotNo |-> MinOf(dead)]

\* ---------------------------------------------------------------- state
VARIABLES
    fileExists,  \* DB: the named file exists
    numPages,    \* DB: pages of the file (header included)
    openCnt,     \* DB: handles of the file that are open
    hdr,         \* FileHdrPage: firstPage, lastPage, recCnt
    pages,       \* the data pages, by page number
    pinCnt,      \* BufMgr: pin count of each page
    hf,          \* the HeapFile object (kind "none": no object alive)
    scan,        \* the HeapFileScan members: predicate and mark
    lastOp,      \* the operation that returned last
    status,      \* its return status
    outRid,      \* its RID out-parameter
    unpins,      \* the unPinPage calls it issued: <<pageNo, dirty, status>>
    hist,        \* bookkeeping of the call sequence since the object was opened
    badDeletes   \* deleteRecord calls so far that the page rejected

vars == <<fileExists, numPages, openCnt, hdr, pages, pinCnt, hf, scan,
          lastOp, status, outRid, unpins, hist, badDeletes>>

\* ---------------------------------------------------------------- BufMgr
\* readPage: pins the page, or fails when the file has no such page
Buf_readPage(pc, n, p) ==
    IF p \in 1 .. n
    THEN [status |-> "OK", pinCnt |-> [pc EXCEPT ![p] = @ + 1]]
    ELSE [status |-> "BADPAGENO", pinCnt |-> pc]

\* unPinPage: releases one pin, or fails when the page holds none
Buf_unPinPage(pc, p) ==
    IF p \in PageNos /\ pc[p] > 0
    THEN [status |-> "OK", pinCnt |-> [pc EXCEPT ![p] = @ - 1]]
    ELSE [status |-> "PAGENOTPINNED", pinCnt |-> pc]

Unpin(p, dirty, st) == [pageNo |-> p, dirty |-> dirty, status |-> st]

NoPins == [p \in PageNos |-> 0]

\* what a frame handed out by allocPage may still hold: allocPage does not clear
\* it (createHeapFile zeroes the header frame itself "so no stale bits linger")
SlotPattern(i) == IF i = 0 THEN RecA ELSE IF i = 1 THEN RecB ELSE RecShort
FirstSlots(n) == [i \in 1 .. n |-> SlotPattern(i - 1)]
Fits(slots) == Page_freeSpace(MkPage(slots, NoPage)) >= 0
\* the slot directories of the page images: a prefix of the pattern that fits a
\* page, or one with its first record deleted
LivePrefixes == {s \in {FirstSlots(n) : n \in 0 .. PageCap} : Fits(s)}
PageShapes ==
    LivePrefixes \cup {[s EXCEPT ![1] = Deleted] : s \in {t \in LivePrefixes : Len(t) >= 2}}
\* a page filled to capacity
FullSlots == CHOOSE s \in LivePrefixes : \A t \in LivePrefixes : Len(t) <= Len(s)
StaleFrames == PageShapes

\* ------------------------------------------------------------- the file
NoHdr == [firstPage |-> NoPage, lastPage |-> NoPage, recCnt |-> 0]
NoPages == [p \in DataPageNos |-> EmptyPage]

RECURSIVE LiveCount(_)
LiveCount(slots) ==
    IF slots = << >> THEN 0
    ELSE (IF IsLive(Head(slots)) THEN 1 ELSE 0) + LiveCount(Tail(slots))

\* data pages of the file, in page-number order (pages are only ever appended,
\* so this is also the order of the chain)
FilePages == FirstDataPage .. numPages
RECURSIVE SumLive(_, _)
SumLive(pgs, S) ==
    IF S = {} THEN 0
    ELSE LET p == MinOf(S) IN LiveCount(pgs[p].slots) + SumLive(pgs, S \ {p})
TotalLive == SumLive(pages, FilePages)

\* A heap file as a complete writer leaves it on disk: header page 1, a chain of
\* k data pages 2 .. k+1 linked in order, recCnt the number of live records.
HeapFileImage(k, shape) ==
    LET pgs == [p \in DataPageNos |->
                  IF p <= k + 1
                  THEN MkPage(shape[p], IF p = k + 1 THEN NoPage ELSE p + 1)
                  ELSE EmptyPage]
    IN  [numPages |-> k + 1,
         hdr      |-> [firstPage |-> FirstDataPage, lastPage |-> k + 1,
                       recCnt |-> SumLive(pgs, FirstDataPage .. (k + 1))],
         pages    |-> pgs]

ImagesOver(shapes) ==
    {HeapFileImage(k, [p \in DataPageNos |-> IF p <= k + 1 THEN sh[p] ELSE << >>]) :
        k \in 1 .. MaxPages, sh \in [DataPageNos -> shapes]}

HeapFileImages == ImagesOver(PageShapes)

\* the images whose pages are each empty or filled
PlainImages == ImagesOver({<< >>, FullSlots})

\* ------------------------------------------------------- object members
NoHF == [kind |-> "none", curPage |-> NULL, curPageNo |-> 0, curRec |-> NULLRID,
         curDirtyFlag |-> FALSE, hdrDirtyFlag |-> FALSE]
NoScan == [filter |-> NoFilter, offset |-> 0, length |-> 0, type |-> "NONE", op |-> "NONE",
           marked |-> FALSE, markedPageNo |-> 0, markedRec |-> NULLRID]
\* startScan arguments when none were handed in
NoParm == [offset |-> 0, length |-> 0, type |-> "NONE", filter |-> NoFilter, op |-> "NONE"]
NoHist == [mode |-> "none", log |-> << >>, mphase |-> "none", mfirst |-> NULLRID,
           arg |-> Deleted, parm |-> NoParm, late |-> {}]

Alive == hf.kind # "none"

\* the page image a Page* points at (the frame keeps the page it was read for)
Frame(cp) == pages[cp]

\* ----------------------------------------------------------------- Init
InitRest ==
    /\ openCnt = 0
    /\ pinCnt = NoPins
    /\ hf = NoHF /\ scan = NoScan
    /\ lastOp = "init" /\ status = "OK" /\ outRid = NULLRID /\ unpins = << >>
    /\ hist = NoHist
    /\ badDeletes = 0

\* no file yet
InitAbsent ==
    /\ fileExists = FALSE
    /\ numPages = 0 /\ hdr = NoHdr /\ pages = NoPages
    /\ InitRest

\* a file written earlier
InitImage(imgs) ==
    /\ \E img \in imgs :
          /\ fileExists = TRUE
          /\ numPages = img.numPages /\ hdr = img.hdr /\ pages = img.pages
    /\ InitRest

\* ------------------------------------------------------------ bookkeeping
Ret(op, st, rid, ups) ==
    /\ lastOp' = op /\ status' = st /\ outRid' = rid /\ unpins' = ups

\* hist.mode  "pure" : only startScan (first) and scanNext calls, all of them OK
\*            "del"  : scanNext and deleteRecord in strict alternation, all OK
\*            "mark" : a pure run followed by markScan; scanNext+; resetScan; scanNext
\*            "mixed": anything else
\* hist.log   the RIDs scanNext returned while the mode was pure or del
\* hist.mphase / hist.mfirst  the step of the mark run and the RID of its first scanNext
\* hist.arg   the record handed to the last insertRecord
\* hist.parm  the arguments handed to startScan, when it was the last call
\* hist.late  the pages the last call read or wrote through curPage while the
\*            pool held no pin on them
Mixed == [mode |-> "mixed", log |-> << >>, mphase |-> "none", mfirst |-> NULLRID,
          arg |-> Deleted, parm |-> NoParm, late |-> {}]

\* an access through the Page* cp: late when the page holds no pin
LateAccess(cp, pc) == IF pc[cp] = 0 THEN {cp} ELSE {}

HistScanNext(st, rid) ==
    LET mode == IF hist.mode = "mark" THEN "mark"
                ELSE IF status # "OK" THEN "mixed"
                ELSE IF hist.mode = "pure" /\ lastOp \in {"open", "startScan", "scanNext"}
                     THEN "pure"
                ELSE IF hist.mode = "del" /\ lastOp = "deleteRecord" THEN "del"
                ELSE "mixed"
        mph  == CASE hist.mphase = "marked" -> IF st = "OK" THEN "moved" ELSE "none"
                  [] hist.mphase = "moved"  -> "moved"
                  [] hist.mphase = "reset"  -> "again"
                  [] OTHER                  -> "none"
    IN  IF mode = "mixed" \/ (mode = "mark" /\ mph = "none") THEN Mixed
        ELSE [mode   |-> mode,
              log    |-> IF mode = "mark" THEN << >>
                         ELSE IF st = "OK" THEN Append(hist.log, rid) ELSE hist.log,
              mphase |-> mph,
              mfirst |-> IF hist.mphase = "marked" THEN rid ELSE hist.mfirst,
              arg    |-> Deleted,
              parm   |-> NoParm,
              late   |-> {}]

HistDelete(st) ==
    IF /\ lastOp = "scanNext" /\ status = "OK" /\ st = "OK"
       /\ \/ hist.mode = "del"
          \/ hist.mode = "pure" /\ Len(hist.log) = 1
    THEN [Mixed EXCEPT !.mode = "del", !.log = hist.log]
    ELSE Mixed

HistStartScan(st, a) ==
    IF hist.mode = "pure" /\ lastOp = "open" /\ st = "OK"
    THEN [Mixed EXCEPT !.mode = "pure", !.parm = a] ELSE [Mixed EXCEPT !.parm = a]

HistMarkScan ==
    IF hist.mode = "pure" THEN [Mixed EXCEPT !.mode = "mark", !.mphase = "marked"]
    ELSE Mixed

HistResetScan ==
    IF hist.mode = "mark" /\ hist.mphase = "moved"
    THEN [hist EXCEPT !.mphase = "reset", !.late = {}] ELSE Mixed

\* -------------------------------------------------- createHeapFile / destroy
\* No object is alive while a file is created or destroyed (one client).
createHeapFile ==
    /\ ~Alive
    /\ IF fileExists
       THEN \* openFile succeeded: FILEEXISTS, and the handle stays open
            /\ openCnt < MaxOpen
            /\ openCnt' = openCnt + 1
            /\ Ret("createHeapFile", "FILEEXISTS", NULLRID, << >>)
            /\ UNCHANGED <<fileExists, numPages, hdr, pages, pinCnt>>
       ELSE \E stale \in StaleFrames :
            LET hdrPageNo == 1
                newPageNo == 2
                pc1 == [pinCnt EXCEPT ![hdrPageNo] = @ + 1]      \* allocPage (header)
                pc2 == [pc1 EXCEPT ![newPageNo] = @ + 1]         \* allocPage (data)
                s1  == Buf_unPinPage(pc2, newPageNo)
                s2  == Buf_unPinPage(s1.pinCnt, hdrPageNo)
            IN  /\ fileExists' = TRUE
                /\ numPages' = 2
                /\ hdr' = [firstPage |-> newPageNo, lastPage |-> newPageNo, recCnt |-> 0]
                \* only setNextPage(-1) is applied to the data frame
                /\ pages' = [pages EXCEPT ![newPageNo] = MkPage(stale, -1)]
                /\ pinCnt' = s2.pinCnt
                /\ openCnt' = openCnt
                /\ Ret("createHeapFile",
                       IF s1.status # "OK" THEN s1.status
                       ELSE IF s2.status # "OK" THEN s2.status ELSE "OK",
                       NULLRID,
                       <<Unpin(newPageNo, TRUE, s1.status), Unpin(hdrPageNo, TRUE, s2.status)>>)
    /\ UNCHANGED <<hf, scan, hist, badDeletes>>

\* db.destroyFile: refuses a file that is open
destroyHeapFile ==
    /\ ~Alive
    /\ IF fileExists /\ openCnt = 0
       THEN /\ fileExists' = FALSE /\ numPages' = 0 /\ hdr' = NoHdr /\ pages' = NoPages
            /\ Ret("destroyHeapFile", "OK", NULLRID, << >>)
       ELSE /\ UNCHANGED <<fileExists, numPages, hdr, pages>>
            /\ Ret("destroyHeapFile", IF fileExists THEN "FILEOPEN" ELSE "UNIXERR",
                   NULLRID, << >>)
    /\ UNCHANGED <<openCnt, pinCnt, hf, scan, hist, badDeletes>>

\* ------------------------------------------------------ HeapFile::HeapFile
HeapFile_ctor(kind) ==
    /\ ~Alive
    /\ IF ~fileExists
       THEN /\ Ret("open", "UNIXERR", NULLRID, << >>)
            /\ UNCHANGED <<openCnt, pinCnt, hf, scan, hist, badDeletes>>
       ELSE /\ openCnt < MaxOpen
            /\ openCnt' = openCnt + 1
            /\ LET r1 == Buf_readPage(pinCnt, numPages, HeaderPageNo) IN
               IF hdr.firstPage # -1
               THEN LET r2 == Buf_readPage(r1.pinCnt, numPages, hdr.firstPage) IN
                    /\ pinCnt' = r2.pinCnt
                    /\ hf' = [kind |-> kind, curPage |-> hdr.firstPage,
                              curPageNo |-> hdr.firstPage,
                              curRec |-> Rid(hdr.firstPage, -1),
                              curDirtyFlag |-> FALSE, hdrDirtyFlag |-> FALSE]
               ELSE /\ pinCnt' = r1.pinCnt
                    /\ hf' = [kind |-> kind, curPage |-> NULL, curPageNo |-> 0,
                              curRec |-> Rid(-1, -1),
                              curDirtyFlag |-> FALSE, hdrDirtyFlag |-> FALSE]
            /\ scan' = NoScan
            /\ hist' = [NoHist EXCEPT !.mode = IF kind = "scan" THEN "pure" ELSE "mixed"]
            /\ Ret("open", "OK", NULLRID, << >>)
    /\ UNCHANGED <<fileExists, numPages, hdr, pages, badDeletes>>

HeapFileScan_ctor == HeapFile_ctor("scan")
InsertFileScan_ctor == HeapFile_ctor("insert")

\* --------------------------------------------------------------- endScan
\* the members, pin counts and unPinPage calls endScan leaves behind
\* endScan that unpins the page as clean whatever curDirtyFlag says
endScan_unpinsClean(h, pc) ==
    IF h.curPage # NULL
    THEN LET u == Buf_unPinPage(pc, h.curPageNo) IN
         [hf |-> [h EXCEPT !.curPage = NULL, !.curPageNo = 0, !.curDirtyFlag = FALSE],
          pinCnt |-> u.pinCnt,
          unpins |-> <<Unpin(h.curPageNo, FALSE, u.status)>>,
          status |-> u.status]
    ELSE [hf |-> h, pinCnt |-> pc, unpins |-> << >>, status |-> "OK"]

endScanRes(h, pc) ==
    IF h.curPage # NULL
    THEN LET u == Buf_unPinPage(pc, h.curPageNo) IN
         [hf |-> [h EXCEPT !.curPage = NULL, !.curPageNo = 0, !.curDirtyFlag = FALSE],
          pinCnt |-> u.pinCnt,
          unpins |-> <<Unpin(h.curPageNo, h.curDirtyFlag, u.status)>>,
          status |-> u.status]
    ELSE [hf |-> h, pinCnt |-> pc, unpins |-> << >>, status |-> "OK"]

endScan ==
    /\ hf.kind = "scan"
    /\ LET r == endScanRes(hf, pinCnt) IN
       /\ hf' = r.hf /\ pinCnt' = r.pinCnt
       /\ Ret("endScan", r.status, NULLRID, r.unpins)
    /\ hist' = Mixed
    /\ UNCHANGED <<fileExists, numPages, openCnt, hdr, pages, scan, badDeletes>>

\* ----------------------------------------------------------- destructors
\* ~InsertFileScan: the current page is unpinned dirty
InsertFileScan_dtorRes(h, pc) ==
    IF h.curPage # NULL
    THEN LET u == Buf_unPinPage(pc, h.curPageNo) IN
         [hf |-> [h EXCEPT !.curPage = NULL, !.curPageNo = 0],
          pinCnt |-> u.pinCnt,
          unpins |-> <<Unpin(h.curPageNo, TRUE, u.status)>>,
          status |-> u.status]
    ELSE [hf |-> h, pinCnt |-> pc, unpins |-> << >>, status |-> "OK"]

\* ~HeapFile: data page (if any) with curDirtyFlag, then the header with hdrDirtyFlag
HeapFile_dtorRes(h, pc) ==
    LET d == endScanRes(h, pc)       \* same unpin-and-null sequence as lines 142-149
        u == Buf_unPinPage(d.pinCnt, HeaderPageNo)
    IN  [pinCnt |-> u.pinCnt,
         unpins |-> d.unpins \o <<Unpin(HeaderPageNo, h.hdrDirtyFlag, u.status)>>]

Destructor ==
    /\ Alive
    /\ LET d == IF hf.kind = "scan" THEN endScanRes(hf, pinCnt)
                ELSE InsertFileScan_dtorRes(hf, pinCnt)
           b == HeapFile_dtorRes(d.hf, d.pinCnt)
       IN  /\ pinCnt' = b.pinCnt
           /\ Ret("close", "OK", NULLRID, d.unpins \o b.unpins)
    /\ hf' = NoHF /\ scan' = NoScan /\ hist' = NoHist
    /\ openCnt' = openCnt - 1
    /\ UNCHANGED <<fileExists, numPages, hdr, pages, badDeletes>>

\* ---------------------------------------------------- HeapFile::getRecord
\* HeapFile::getRecord without the unPinPage of the page it leaves
getRecord_keepsPin(h, pc, rid) ==
    LET switch == h.curPage = NULL \/ rid.pageNo # h.curPageNo
        rd == Buf_readPage(pc, numPages, rid.pageNo)
    IN  IF ~switch
        THEN [hf |-> [h EXCEPT !.curRec = rid], pinCnt |-> pc, unpins |-> << >>,
              late |-> LateAccess(h.curPage, pc),
              status |-> Page_getRecord(Frame(h.curPage), rid).status]
        ELSE IF rd.status # "OK"
        THEN [hf |-> [h EXCEPT !.curPage = NULL, !.curDirtyFlag = FALSE,
                               !.curPageNo = rid.pageNo],
              pinCnt |-> rd.pinCnt, unpins |-> << >>, late |-> {}, status |-> rd.status]
        ELSE [hf |-> [h EXCEPT !.curPage = rid.pageNo, !.curPageNo = rid.pageNo,
                               !.curDirtyFlag = FALSE, !.curRec = rid],
              pinCnt |-> rd.pinCnt, unpins |-> << >>,
              late |-> {}, status |-> Page_getRecord(Frame(rid.pageNo), rid).status]

HeapFile_getRecordRes(h, pc, rid) ==
    LET switch == h.curPage = NULL \/ rid.pageNo # h.curPageNo
        u  == Buf_unPinPage(pc, h.curPageNo)
        ups == IF switch /\ h.curPage # NULL
               THEN <<Unpin(h.curPageNo, h.curDirtyFlag, u.status)>> ELSE << >>
        pc1 == IF switch /\ h.curPage # NULL THEN u.pinCnt ELSE pc
        rd == Buf_readPage(pc1, numPages, rid.pageNo)
    IN  IF ~switch
        THEN [hf |-> [h EXCEPT !.curRec = rid], pinCnt |-> pc, unpins |-> << >>,
              late |-> LateAccess(h.curPage, pc),
              status |-> Page_getRecord(Frame(h.curPage), rid).status]
        ELSE IF h.curPage # NULL /\ u.status # "OK"
        THEN [hf |-> h, pinCnt |-> pc, unpins |-> ups, late |-> {}, status |-> u.status]
        ELSE IF rd.status # "OK"
        THEN [hf |-> [h EXCEPT !.curPage = NULL, !.curDirtyFlag = FALSE,
                               !.curPageNo = rid.pageNo],
              pinCnt |-> rd.pinCnt, unpins |-> ups, late |-> {}, status |-> rd.status]
        ELSE [hf |-> [h EXCEPT !.curPage = rid.pageNo, !.curPageNo = rid.pageNo,
                               !.curDirtyFlag = FALSE, !.curRec = rid],
              pinCnt |-> rd.pinCnt, unpins |-> ups,
              late |-> {}, status |-> Page_getRecord(Frame(rid.pageNo), rid).status]

\* the RIDs a caller hands in: a slot of a data page of the file, or of no page
CallerRids == {Rid(p, s) : p \in FilePages \cup {BadPageNo}, s \in 0 .. (Len(FullSlots) - 1)}

HeapFile_getRecord ==
    /\ Alive
    /\ \E rid \in CallerRids :
         LET r == HeapFile_getRecordRes(hf, pinCnt, rid) IN
         /\ hf' = r.hf /\ pinCnt' = r.pinCnt
         /\ Ret("getRecord", r.status, NULLRID, r.unpins)
         /\ hist' = [Mixed EXCEPT !.late = r.late]
    /\ UNCHANGED <<fileExists, numPages, openCnt, hdr, pages, scan, badDeletes>>

getRecCnt == hdr.recCnt

\* ------------------------------------------------ HeapFileScan::startScan
Datatypes == {"STRING", "INTEGER", "FLOAT"}
Operators == {"LT", "LTE", "EQ", "GTE", "GT", "NE"}

\* startScan without the length test of a FLOAT attribute
startScan_noFloatLength(sc, offset_, length_, type_, filter_, op_) ==
    IF filter_ = NoFilter
    THEN [scan |-> [sc EXCEPT !.filter = NoFilter], status |-> "OK"]
    ELSE IF \/ (offset_ < 0 \/ length_ < 1)
            \/ (type_ # "STRING" /\ type_ # "INTEGER" /\ type_ # "FLOAT")
            \/ (type_ = "INTEGER" /\ length_ # IntSize)
            \/ op_ \notin Operators
    THEN [scan |-> sc, status |-> "BADSCANPARM"]
    ELSE [scan |-> [sc EXCEPT !.offset = offset_, !.length = length_, !.type = type_,
                              !.filter = filter_, !.op = op_],
          status |-> "OK"]

startScanRes(sc, offset_, length_, type_, filter_, op_) ==
    IF filter_ = NoFilter
    THEN [scan |-> [sc EXCEPT !.filter = NoFilter], status |-> "OK"]
    ELSE IF \/ (offset_ < 0 \/ length_ < 1)
            \/ (type_ # "STRING" /\ type_ # "INTEGER" /\ type_ # "FLOAT")
            \/ (type_ = "INTEGER" /\ length_ # IntSize)
            \/ (type_ = "FLOAT" /\ length_ # IntSize)
            \/ op_ \notin Operators
    THEN [scan |-> sc, status |-> "BADSCANPARM"]
    ELSE [scan |-> [sc EXCEPT !.offset = offset_, !.length = length_, !.type = type_,
                              !.filter = filter_, !.op = op_],
          status |-> "OK"]

\* the predicates a caller installs here
ScanParms ==
    {[offset |-> 0, length |-> 4, type |-> "INTEGER", filter |-> NoFilter, op |-> "EQ"],
     [offset |-> 0, length |-> 4, type |-> "INTEGER", filter |-> <<2, 0, 0, 0>>, op |-> "EQ"],
     [offset |-> 0, length |-> 2, type |-> "INTEGER", filter |-> <<2, 0, 0, 0>>, op |-> "EQ"]}

startScanWith(parms) ==
    /\ hf.kind = "scan"
    /\ \E a \in parms :
         LET r == startScanRes(scan, a.offset, a.length, a.type, a.filter, a.op) IN
         /\ scan' = r.scan
         /\ Ret("startScan", r.status, NULLRID, << >>)
         /\ hist' = HistStartScan(r.status, a)
    /\ UNCHANGED <<fileExists, numPages, openCnt, hdr, pages, pinCnt, hf, badDeletes>>

startScan == startScanWith(ScanParms)

\* every kind of argument a caller may hand to startScan: offsets below and at
\* 0, lengths below, at and above 1 and at sizeof(int), every Datatype and
\* Operator and a value outside each enum, a null and a non-null filter
AnyOffsets == {-1, 0}
AnyLengths == {0, 1, IntSize}
AnyTypes == Datatypes \cup {"BADTYPE"}
AnyOps == Operators \cup {"BADOP"}
AnyFilters == {NoFilter, <<2, 0, 0, 0>>}
AnyScanParms ==
    [offset : AnyOffsets, length : AnyLengths, type : AnyTypes, filter : AnyFilters,
     op : AnyOps]

startScan_anyParms == startScanWith(AnyScanParms)

\* records whose int attribute is 1, -1, INT_MAX, INT_MIN, and INTEGER
\* predicates over the same values
RecMinusOne == Rec(<<255, 255, 255, 255>>)
RecIntMax == Rec(<<255, 255, 255, 127>>)
RecIntMin == Rec(<<0, 0, 0, 128>>)
IntRecs == {RecA, RecMinusOne, RecIntMax, RecIntMin}
IntScanParms ==
    [offset : {0}, length : {IntSize}, type : {"INTEGER"},
     filter : {r.data : r \in IntRecs}, op : Operators]

startScan_intParms == startScanWith(IntScanParms)

\* ------------------------------------------------------------- matchRec
\* 32-bit words are kept as two 16-bit halves
Half == 65536
\* the word a little-endian memcpy of 4 bytes yields
Word(b) == [hi |-> b[3] + 256 * b[4], lo |-> b[1] + 256 * b[2]]
\* the int a word holds
Int32(w) == (IF w.hi >= Half \div 2 THEN w.hi - Half ELSE w.hi) * Half + w.lo
\* iattr - ifltr, 32 bits wide
Sub32(a, f) ==
    LET borrow == IF a.lo < f.lo THEN 1 ELSE 0 IN
    Int32([hi |-> (a.hi - f.hi - borrow) % Half, lo |-> (a.lo - f.lo) % Half])
Sign(x) == IF x < 0 THEN -1 ELSE IF x > 0 THEN 1 ELSE 0

\* strncmp: stops at the first difference, at a NUL, or after n bytes
RECURSIVE Strncmp(_, _, _)
Strncmp(a, b, n) ==
    IF n = 0 THEN 0
    ELSE IF Head(a) # Head(b) THEN Head(a) - Head(b)
    ELSE IF Head(a) = 0 THEN 0
    ELSE Strncmp(Tail(a), Tail(b), n - 1)

\* a float by its bits: sign, and magnitude bits; NaN above the infinity pattern
FloatKey(b) ==
    LET w == Word(b)
        mag == (w.hi % (Half \div 2)) * Half + w.lo
    IN  [nan |-> mag > 2139095040, inf |-> mag = 2139095040,
         key |-> IF w.hi >= Half \div 2 THEN -mag ELSE mag]
FloatDiff(a, f) ==
    IF a.nan \/ f.nan \/ (a.inf /\ f.inf /\ a.key = f.key)
    THEN [nan |-> TRUE, sgn |-> 0]
    ELSE [nan |-> FALSE, sgn |-> Sign(a.key - f.key)]

Attr(rec, offset, length) == SubSeq(rec.data, offset + 1, offset + length)

\* diff: < 0 if attr < fltr
matchDiff(sc, rec) ==
    CASE sc.type = "INTEGER" ->
           [nan |-> FALSE,
            sgn |-> Sign(Sub32(Word(Attr(rec, sc.offset, sc.length)), Word(sc.filter)))]
      [] sc.type = "FLOAT" ->
           FloatDiff(FloatKey(Attr(rec, sc.offset, sc.length)), FloatKey(sc.filter))
      [] OTHER ->
           [nan |-> FALSE,
            sgn |-> Sign(Strncmp(Attr(rec, sc.offset, sc.length), sc.filter, sc.length))]

matchOp(op, diff) ==
    CASE op = "LT"  -> ~diff.nan /\ diff.sgn < 0
      [] op = "LTE" -> ~diff.nan /\ diff.sgn <= 0
      [] op = "EQ"  -> ~diff.nan /\ diff.sgn = 0
      [] op = "GTE" -> ~diff.nan /\ diff.sgn >= 0
      [] op = "GT"  -> ~diff.nan /\ diff.sgn > 0
      [] op = "NE"  -> diff.nan \/ diff.sgn # 0
      [] OTHER      -> FALSE

matchRec(sc, rec) ==
    IF sc.filter = NoFilter THEN TRUE
    ELSE IF (sc.offset + sc.length - 1) >= rec.length THEN FALSE
    ELSE matchOp(sc.op, matchDiff(sc, rec))

\* ------------------------------------------------- HeapFileScan::scanNext
\* One run of scanNext's loop over the members h, the pin counts pc and the
\* local nextRid; log collects the unPinPage calls (log.ups) and the pages
\* accessed without a pin (log.late).  The result carries the members and pins
\* left behind, the status and outRid.
Out(h, pc, log, st, rid) ==
    [hf |-> h, pinCnt |-> pc, unpins |-> log.ups, late |-> log.late, status |-> st,
     outRid |-> rid]
NoLog == [ups |-> << >>, late |-> {}]

\* lines 359-369: fetch curRec, test it, return it or go round again
RECURSIVE scanLoop(_, _, _, _)
scanEval(h, pc, log, nextRid) ==
    LET g == Page_getRecord(Frame(h.curPage), h.curRec)
        log1 == [log EXCEPT !.late = @ \cup LateAccess(h.curPage, pc)]
    IN  IF g.status # "OK" THEN Out(h, pc, log1, g.status, NULLRID)
        ELSE IF matchRec(scan, g.rec) THEN Out(h, pc, log1, "OK", h.curRec)
        ELSE scanLoop(h, pc, log1, nextRid)

\* lines 329-354: the page is exhausted
scanAdvance(h, pc, log, nextRid) ==
    LET u    == Buf_unPinPage(pc, h.curPageNo)
        ups0 == [log EXCEPT !.ups = Append(@, Unpin(h.curPageNo, h.curDirtyFlag, u.status))]
        \* getNextPage reads through curPage after the unpin
        ups1 == [ups0 EXCEPT !.late = @ \cup LateAccess(h.curPage, u.pinCnt)]
        nextPageNo == Frame(h.curPage).nextPage
        rd   == Buf_readPage(u.pinCnt, numPages, nextPageNo)
        h1   == [h EXCEPT !.curPage = nextPageNo, !.curPageNo = nextPageNo,
                          !.curDirtyFlag = FALSE]
        f    == Page_firstRecord(Frame(nextPageNo), nextPageNo)
    IN  IF u.status # "OK" THEN Out(h, pc, ups0, u.status, NULLRID)
        ELSE IF nextPageNo = -1 THEN Out(h, u.pinCnt, ups1, "FILEEOF", NULLRID)
        ELSE IF rd.status # "OK" THEN Out(h, u.pinCnt, ups1, rd.status, NULLRID)
        ELSE IF f.status # "OK" THEN Out(h1, rd.pinCnt, ups1, "FILEEOF", NULLRID)
        ELSE scanEval([h1 EXCEPT !.curRec = f.rid], rd.pinCnt, ups1, nextRid)

scanLoop(h, pc, log, nextRid) ==
    IF h.curPage = NULL
    THEN \* lines 303-316; nextRid is not assigned on this path
         LET rd == Buf_readPage(pc, numPages, hdr.firstPage)
             h1 == [h EXCEPT !.curPage = hdr.firstPage, !.curPageNo = hdr.firstPage,
                             !.curDirtyFlag = FALSE]
             f  == Page_firstRecord(Frame(hdr.firstPage), hdr.firstPage)
         IN  IF rd.status # "OK" THEN Out(h, pc, log, rd.status, NULLRID)
             ELSE IF f.status = "OK"
                  THEN scanEval([h1 EXCEPT !.curRec = nextRid], rd.pinCnt, log, nextRid)
                  ELSE scanAdvance(h1, rd.pinCnt, log, nextRid)
    ELSE \* lines 317-320
         LET n == Page_nextRecord(Frame(h.curPage), h.curPage, h.curRec)
             log1 == [log EXCEPT !.late = @ \cup LateAccess(h.curPage, pc)]
         IN  IF n.status = "OK"
             THEN scanEval([h EXCEPT !.curRec = n.rid], pc, log1, n.rid)
             ELSE scanAdvance(h, pc, log1, nextRid)

\* what the uninitialised local nextRid may hold when it is read (lines 325-326,
\* reached with nextRid unassigned only from the curPage == NULL branch): a slot
\* number that may be live, and one outside every slot directory
StackRids == {Rid(BadPageNo, 0), Rid(BadPageNo, Len(FullSlots))}

scanNextRes(h, pc, nextRid) == scanLoop(h, pc, NoLog, nextRid)

scanNext ==
    /\ hf.kind = "scan"
    /\ \E nextRid \in (IF hf.curPage = NULL THEN StackRids ELSE {NULLRID}) :
         LET r == scanNextRes(hf, pinCnt, nextRid) IN
         /\ hf' = r.hf /\ pinCnt' = r.pinCnt
         /\ Ret("scanNext", r.status, r.outRid, r.unpins)
         /\ hist' = [HistScanNext(r.status, r.outRid) EXCEPT !.late = r.late]
    /\ UNCHANGED <<fileExists, numPages, openCnt, hdr, pages, scan, badDeletes>>

\* ------------------------------------------------- markScan / resetScan
markScan ==
    /\ hf.kind = "scan"
    /\ scan' = [scan EXCEPT !.marked = TRUE, !.markedPageNo = hf.curPageNo,
                            !.markedRec = hf.curRec]
    /\ Ret("markScan", "OK", NULLRID, << >>)
    /\ hist' = HistMarkScan
    /\ UNCHANGED <<fileExists, numPages, openCnt, hdr, pages, pinCnt, hf, badDeletes>>

resetScanRes(h, pc, sc) ==
    LET u   == Buf_unPinPage(pc, h.curPageNo)
        ups == IF h.curPage # NULL
               THEN <<Unpin(h.curPageNo, h.curDirtyFlag, u.status)>> ELSE << >>
        pc1 == IF h.curPage # NULL THEN u.pinCnt ELSE pc
        h1  == [h EXCEPT !.curPageNo = sc.markedPageNo, !.curRec = sc.markedRec]
        rd  == Buf_readPage(pc1, numPages, sc.markedPageNo)
    IN  IF sc.markedPageNo # h.curPageNo
        THEN IF h.curPage # NULL /\ u.status # "OK"
             THEN [hf |-> h, pinCnt |-> pc, unpins |-> ups, status |-> u.status]
             ELSE IF rd.status # "OK"
             THEN [hf |-> h1, pinCnt |-> pc1, unpins |-> ups, status |-> rd.status]
             ELSE [hf |-> [h1 EXCEPT !.curPage = sc.markedPageNo, !.curDirtyFlag = FALSE],
                   pinCnt |-> rd.pinCnt, unpins |-> ups, status |-> "OK"]
        ELSE [hf |-> [h EXCEPT !.curRec = sc.markedRec], pinCnt |-> pc,
              unpins |-> << >>, status |-> "OK"]

\* resetScan is called after a markScan (markedPageNo and markedRec hold no
\* value before the first one)
resetScan ==
    /\ hf.kind = "scan"
    /\ scan.marked
    /\ LET r == resetScanRes(hf, pinCnt, scan) IN
       /\ hf' = r.hf /\ pinCnt' = r.pinCnt
       /\ Ret("resetScan", r.status, NULLRID, r.unpins)
    /\ hist' = HistResetScan
    /\ UNCHANGED <<fileExists, numPages, openCnt, hdr, pages, scan, badDeletes>>

\* ------------------------------- getRecord / deleteRecord / markDirty (scan)
\* curPage is dereferenced: the calls are made with a current page
HeapFileScan_getRecord ==
    /\ hf.kind = "scan"
    /\ hf.curPage # NULL
    /\ Ret("getRecordCur", Page_getRecord(Frame(hf.curPage), hf.curRec).status,
           NULLRID, << >>)
    /\ hist' = [hist EXCEPT !.late = LateAccess(hf.curPage, pinCnt)]
    /\ UNCHANGED <<fileExists, numPages, openCnt, hdr, pages, pinCnt, hf, scan,
                   badDeletes>>

deleteRecordRes(h, pg, hd) ==
    LET d == Page_deleteRecord(pg, h.curRec) IN
    [hf |-> [h EXCEPT !.curDirtyFlag = TRUE, !.hdrDirtyFlag = TRUE],
     page |-> d.page,
     hdr |-> [hd EXCEPT !.recCnt = @ - 1],
     status |-> d.status]

deleteRecord ==
    /\ hf.kind = "scan"
    /\ hf.curPage # NULL
    /\ LET r == deleteRecordRes(hf, Frame(hf.curPage), hdr) IN
       /\ r.status = "OK" \/ badDeletes < MaxBadDeletes
       /\ badDeletes' = IF r.status = "OK" THEN badDeletes ELSE badDeletes + 1
       /\ hf' = r.hf /\ hdr' = r.hdr
       /\ pages' = [pages EXCEPT ![hf.curPage] = r.page]
       /\ Ret("deleteRecord", r.status, NULLRID, << >>)
       /\ hist' = [HistDelete(r.status) EXCEPT !.late = LateAccess(hf.curPage, pinCnt)]
    /\ UNCHANGED <<fileExists, numPages, openCnt, pinCnt, scan>>

markDirty ==
    /\ hf.kind = "scan"
    /\ hf' = [hf EXCEPT !.curDirtyFlag = TRUE]
    /\ Ret("markDirty", "OK", NULLRID, << >>)
    /\ hist' = Mixed
    /\ UNCHANGED <<fileExists, numPages, openCnt, hdr, pages, pinCnt, scan, badDeletes>>

\* ------------------------------------------- InsertFileScan::insertRecord
\* The body ends after the length check: for a record that passes it, control
\* runs off the end of the function.  Nothing is inserted, no member changes,
\* outRid is not written and the status the caller receives is arbitrary.
Statuses == {"OK", "FILEEOF", "NORECORDS", "NOSPACE", "INVALIDRECLEN", "INVALIDSLOTNO",
             "BADSCANPARM", "FILEEXISTS", "BADPAGENO", "PAGENOTPINNED", "UNIXERR", "FILEOPEN"}
ReturnedOffEnd == {"OK", "NOSPACE", "UNIXERR"}

insertRecordRes(rec, st) ==
    IF rec.length > PageCap THEN "INVALIDRECLEN" ELSE st

InsertRecs == {RecA, RecShort, RecHuge}

insertRecord ==
    /\ hf.kind = "insert"
    /\ \E rec \in InsertRecs, st \in ReturnedOffEnd :
         /\ Ret("insertRecord", insertRecordRes(rec, st), NULLRID, << >>)
         /\ hist' = [Mixed EXCEPT !.arg = rec]
    /\ UNCHANGED <<fileExists, numPages, openCnt, hdr, pages, pinCnt, hf, scan, badDeletes>>

\* ------------------------------------------------------- specifications
\* Spec: the operations of an object that pin, unpin or insert, over a file
\* written earlier whose pages are each empty or filled.
Init == InitImage(PlainImages)

Next ==
    \/ HeapFileScan_ctor
    \/ InsertFileScan_ctor
    \/ Destructor
    \/ HeapFile_getRecord
    \/ endScan
    \/ markScan
    \/ resetScan
    \/ scanNext
    \/ insertRecord

Spec == Init /\ [][Next]_vars

\* SpecScan: scans, filtered or not, with deletes, over every file image.
InitScan == InitImage(HeapFileImages)

NextScan ==
    \/ HeapFileScan_ctor
    \/ Destructor
    \/ startScan
    \/ scanNext
    \/ HeapFileScan_getRecord
    \/ deleteRecord
    \/ markDirty
    \/ endScan

SpecScan == InitScan /\ [][NextScan]_vars

\* SpecMark: scans with markScan / resetScan over every file image.
NextMark ==
    \/ HeapFileScan_ctor
    \/ Destructor
    \/ scanNext
    \/ markScan
    \/ resetScan
    \/ endScan

SpecMark == InitScan /\ [][NextMark]_vars

\* SpecStart: startScan with every kind of argument, on an open scan.
NextStart ==
    \/ HeapFileScan_ctor
    \/ startScan_anyParms
    \/ Destructor

\* a file of one filled data page
InitStart ==
    InitImage({HeapFileImage(1, [p \in DataPageNos |->
                                   IF p = FirstDataPage THEN FullSlots ELSE << >>])})

SpecStart == InitStart /\ [][NextStart]_vars

\* SpecMatch: INTEGER predicates over a one-page file of two int records.
IntImages ==
    {HeapFileImage(1, [p \in DataPageNos |->
                         IF p = FirstDataPage THEN <<r1, r2>> ELSE << >>]) :
        r1 \in IntRecs, r2 \in IntRecs}

InitMatch == InitImage(IntImages)

NextMatch ==
    \/ HeapFileScan_ctor
    \/ startScan_intParms
    \/ scanNext
    \/ Destructor

SpecMatch == InitMatch /\ [][NextMatch]_vars

\* SpecDirty: every operation that modifies a page or releases a pin, over a
\* file of one or two pages of one record each.
SmallImages ==
    {HeapFileImage(k, [p \in DataPageNos |-> IF p <= k + 1 THEN <<RecA>> ELSE << >>]) :
        k \in {1, 2}}

InitDirty == InitImage(SmallImages)

NextDirty ==
    \/ HeapFileScan_ctor
    \/ InsertFileScan_ctor
    \/ Destructor
    \/ HeapFile_getRecord
    \/ scanNext
    \/ markScan
    \/ resetScan
    \/ deleteRecord
    \/ markDirty
    \/ endScan

SpecDirty == InitDirty /\ [][NextDirty]_vars

\* SpecCreate: a file is created, opened, closed and destroyed.
NextCreate ==
    \/ createHeapFile
    \/ destroyHeapFile
    \/ HeapFileScan_ctor
    \/ InsertFileScan_ctor
    \/ startScan
    \/ scanNext
    \/ endScan
    \/ insertRecord
    \/ Destructor

SpecCreate == InitAbsent /\ [][NextCreate]_vars

\* ================================================================ claims
\* the RIDs of the live records, in chain order and ascending slot order
RECURSIVE SlotRids(_, _, _)
SlotRids(pg, pno, i) ==
    IF i >= Len(pg.slots) THEN << >>
    ELSE (IF IsLive(pg.slots[i + 1]) THEN <<Rid(pno, i)>> ELSE << >>)
         \o SlotRids(pg, pno, i + 1)
RECURSIVE ChainRids(_)
ChainRids(pno) ==
    IF pno = NoPage THEN << >>
    ELSE SlotRids(pages[pno], pno, 0) \o ChainRids(pages[pno].nextPage)
LiveRids == ChainRids(hdr.firstPage)

IsPrefix(a, b) == Len(a) <= Len(b) /\ SubSeq(b, 1, Len(a)) = a
RecAt(rid) == pages[rid.pageNo].slots[rid.slotNo + 1]
IsLiveRid(rid) == rid.pageNo \in FilePages /\ rid.slotNo \in LiveSlots(pages[rid.pageNo])
Matches(rid) == matchRec(scan, RecAt(rid))
DataPins == LET RECURSIVE Sum(_)
                Sum(S) == IF S = {} THEN 0
                          ELSE LET p == MinOf(S) IN pinCnt[p] + Sum(S \ {p})
            IN  Sum(DataPageNos)

\* C1: whenever the file exists, headerPage.recCnt equals the number of live
\* slots over all data pages of the chain.
C1_RecCntIsLiveCount == fileExists => hdr.recCnt = TotalLive

\* C2: every pin is matched by exactly one unpin: no unPinPage call is issued on
\* a page that holds no pin, and no page is left pinned once the object is gone.
C2_PinsPaired ==
    /\ \A i \in 1 .. Len(unpins) : unpins[i].status = "OK"
    /\ ~Alive => pinCnt = NoPins

\* C3: with no filter, the scanNext calls of a freshly opened scan return the
\* live records in chain order and slot order, each once, and FILEEOF only after
\* the last of them.
C3_FullScan ==
    (hist.mode = "pure" /\ lastOp = "scanNext" /\ scan.filter = NoFilter) =>
        IF status = "OK" THEN IsPrefix(hist.log, LiveRids)
        ELSE status = "FILEEOF" /\ hist.log = LiveRids

\* C4: with a filter installed, every RID scanNext returns is a live record that
\* matchRec accepts, and a scan run to FILEEOF has returned exactly the live
\* records matchRec accepts.
C4_FilteredScan ==
    (hist.mode = "pure" /\ lastOp = "scanNext" /\ scan.filter # NoFilter) =>
        IF status = "OK" THEN IsLiveRid(outRid) /\ Matches(outRid)
        ELSE status = "FILEEOF" /\ hist.log = SelectSeq(LiveRids, Matches)

\* C5: after markScan and n >= 1 scanNext calls, resetScan returns OK and the
\* next scanNext returns the RID the first scanNext after the mark returned.
C5_MarkReset ==
    /\ hist.mphase = "reset" => status = "OK"
    /\ hist.mphase = "again" => status = "OK" /\ outRid = hist.mfirst

\* C6: a full scan that deletes after every OK scanNext ends with FILEEOF, no
\* live record left and getRecCnt() = 0; a fresh scan of a file without live
\* records returns FILEEOF on its first scanNext.
C6_DeleteDuringScan ==
    /\ (hist.mode = "del" /\ lastOp = "scanNext" /\ status # "OK"
            /\ scan.filter = NoFilter) =>
          status = "FILEEOF" /\ TotalLive = 0 /\ getRecCnt = 0
    /\ (hist.mode = "pure" /\ lastOp = "scanNext" /\ hist.log = << >>
            /\ scan.filter = NoFilter /\ TotalLive = 0) =>
          status = "FILEEOF"

\* C7: insertRecord of a record that fits a page returns OK with
\* rid = (curPageNo, newSlot), adds one to recCnt, sets both dirty flags, and
\* getRecord(rid) then yields the record.
C7_InsertRead ==
    [][(lastOp' = "insertRecord" /\ hist'.arg.length <= PageCap) =>
         /\ status' = "OK"
         /\ outRid'.pageNo = hf'.curPageNo
         /\ HeapFile_getRecordRes(hf', pinCnt', outRid').status = "OK"
         /\ RecAt(outRid)' = hist'.arg
         /\ hdr'.recCnt = hdr.recCnt + 1
         /\ hf'.curDirtyFlag /\ hf'.hdrDirtyFlag]_vars

\* the chain from firstPage ends, finitely, at lastPage, whose link is -1
RECURSIVE ChainEndsAt(_, _, _)
ChainEndsAt(pno, last, fuel) ==
    IF fuel = 0 \/ pno \notin FilePages THEN FALSE
    ELSE IF pages[pno].nextPage = NoPage THEN pno = last
    ELSE ChainEndsAt(pages[pno].nextPage, last, fuel - 1)
ChainOk == ChainEndsAt(hdr.firstPage, hdr.lastPage, MaxPages)

\* C8: the chain from firstPage ends at lastPage, whose nextPage is -1; an
\* insert that finds no space on the tail allocates one page, links it from the
\* former tail and makes it lastPage.
C8_ChainGrows ==
    [][/\ fileExists' => ChainOk'
       /\ (/\ lastOp' = "insertRecord" /\ hist'.arg.length <= PageCap
           /\ Page_insertRecord(pages[hdr.lastPage], hist'.arg).status = "NOSPACE") =>
            /\ numPages' = numPages + 1
            /\ hdr'.lastPage = numPages'
            /\ pages'[hdr.lastPage].nextPage = numPages']_vars

\* C9: createHeapFile on a new name returns OK and leaves a closed two-page file
\* without pins: recCnt 0, firstPage = lastPage = the one data page, empty and
\* with nextPage -1, both pages unpinned dirty; an object opened on it reads
\* getRecCnt() = 0 and its destruction leaves no pin.
C9_CreateEmpty ==
    /\ (lastOp = "createHeapFile" /\ status # "FILEEXISTS") =>
          /\ status = "OK"
          /\ numPages = 2
          /\ hdr = [firstPage |-> FirstDataPage, lastPage |-> FirstDataPage, recCnt |-> 0]
          /\ pages[FirstDataPage] = EmptyPage
          /\ pinCnt = NoPins /\ openCnt = 0
          /\ {unpins[i].pageNo : i \in 1 .. Len(unpins)} = {HeaderPageNo, FirstDataPage}
          /\ \A i \in 1 .. Len(unpins) : unpins[i].dirty /\ unpins[i].status = "OK"
    /\ lastOp = "open" /\ status = "OK" => getRecCnt = 0
    /\ lastOp = "close" => pinCnt = NoPins

BadScanParm(a) ==
    \/ a.offset < 0
    \/ a.length < 1
    \/ a.type \notin {"STRING", "INTEGER", "FLOAT"}
    \/ (a.type = "INTEGER" /\ a.length # 4)
    \/ (a.type = "FLOAT" /\ a.length # 4)
    \/ a.op \notin {"LT", "LTE", "EQ", "GTE", "GT", "NE"}

\* C11: startScan with a null filter returns OK and the scan then matches every
\* record; with a non-null filter it returns BADSCANPARM exactly for the invalid
\* arguments and then keeps the stored predicate, and otherwise returns OK and
\* stores the new predicate.
C11_StartScanValidates ==
    [][lastOp' = "startScan" =>
         LET a == hist'.parm IN
         IF a.filter = NoFilter
         THEN status' = "OK" /\ \A r \in {RecA, RecB, RecShort} : matchRec(scan', r)
         ELSE IF BadScanParm(a)
         THEN status' = "BADSCANPARM" /\ scan' = scan
         ELSE /\ status' = "OK"
              /\ scan'.offset = a.offset /\ scan'.length = a.length
              /\ scan'.type = a.type /\ scan'.filter = a.filter /\ scan'.op = a.op]_vars

\* C11 witness: a FLOAT predicate of the wrong length was refused while an
\* earlier predicate stays installed.
C11_Witness ==
    /\ lastOp = "startScan" /\ status = "BADSCANPARM"
    /\ hist.parm.type = "FLOAT" /\ hist.parm.length = 1 /\ hist.parm.offset = 0
    /\ hist.parm.op = "EQ" /\ hist.parm.filter # NoFilter
    /\ scan.filter # NoFilter /\ scan.type = "STRING"


\* C12: scanNext returns FILEEOF only at a page whose nextPage is -1: a page it
\* advances to that holds no live record is passed over, not taken for the end.
C12_EmptyPagePassedOver ==
    (lastOp = "scanNext" /\ status = "FILEEOF") =>
        pages[hf.curPageNo].nextPage = NoPage


\* C13: no call reads or writes a data page through curPage while the instance
\* holds no pin on that page.
C13_NoAccessAfterUnpin == hist.late = {}


\* C14: scanNext called with no data page pinned (curPage = NULL) pins
\* firstPage, makes it the current page and its first live record curRec; with
\* no filter it returns OK and that record's RID.
C14_ScanFromNull ==
    [][(/\ lastOp' = "scanNext" /\ hf.kind = "scan" /\ hf.curPage = NULL
        /\ scan.filter = NoFilter
        /\ Page_firstRecord(pages[hdr.firstPage], hdr.firstPage).status = "OK") =>
         LET first == Page_firstRecord(pages[hdr.firstPage], hdr.firstPage).rid IN
         /\ status' = "OK" /\ outRid' = first
         /\ hf'.curPage = hdr.firstPage /\ hf'.curPageNo = hdr.firstPage
         /\ hf'.curRec = first
         /\ pinCnt'[hdr.firstPage] = pinCnt[hdr.firstPage] + 1]_vars


\* C15: a mark does not survive endScan: a resetScan that follows an endScan
\* does not put the cursor (curPageNo, curRec) back to the position marked
\* before the endScan.
C15_MarkEndsWithScan ==
    [][(lastOp = "endScan" /\ scan.marked /\ lastOp' = "resetScan") =>
         ~(hf'.curPageNo = scan.markedPageNo /\ hf'.curRec = scan.markedRec)]_vars

\* a op f over the integers
Compare(op, a, f) ==
    CASE op = "LT"  -> a < f
      [] op = "LTE" -> a <= f
      [] op = "EQ"  -> a = f
      [] op = "GTE" -> a >= f
      [] op = "GT"  -> a > f
      [] op = "NE"  -> a # f
IntMatches(rid) ==
    Compare(scan.op, Int32(Word(RecAt(rid).data)), Int32(Word(scan.filter)))

\* C16: under an INTEGER filter scanNext returns a record exactly when
\* attribute op filter holds as a comparison of signed 32-bit values, also when
\* attribute - filter does not fit in 32 bits.
C16_IntegerCompare ==
    (lastOp = "scanNext" /\ hist.mode = "pure" /\ scan.filter # NoFilter
        /\ scan.type = "INTEGER") =>
        IF status = "OK" THEN IntMatches(outRid)
        ELSE hist.log = SelectSeq(LiveRids, IntMatches)


\* C17: when createHeapFile returns a status other than OK, no page it pinned
\* is still pinned and no file handle it opened is still open.
C17_CreateFailsClean ==
    (lastOp = "createHeapFile" /\ status # "OK") => pinCnt = NoPins /\ openCnt = 0

\* an unPinPage call in the log ups released page p and said dirty
ReleasedDirty(ups, p) ==
    \E i \in 1 .. Len(ups) : ups[i].pageNo = p /\ ups[i].status = "OK" /\ ups[i].dirty

\* C18: deleteRecord and markDirty set curDirtyFlag, deleteRecord sets
\* hdrDirtyFlag; a set flag of a pinned page stays set until the unPinPage call
\* that releases the pin, and that call carries dirty = true, whichever
\* operation makes it.
C18_DirtyReachesThePool ==
    [][/\ lastOp' \in {"deleteRecord", "markDirty"} => hf'.curDirtyFlag
       /\ lastOp' = "deleteRecord" => hf'.hdrDirtyFlag
       /\ (hf.curPage # NULL /\ pinCnt[hf.curPage] > 0 /\ hf.curDirtyFlag) =>
            \/ /\ hf'.curPage = hf.curPage /\ hf'.curDirtyFlag
               /\ pinCnt'[hf.curPage] = pinCnt[hf.curPage]
            \/ ReleasedDirty(unpins', hf.curPage)
       /\ (Alive /\ hf.hdrDirtyFlag) =>
            hf'.hdrDirtyFlag \/ ReleasedDirty(unpins', HeaderPageNo)]_vars

\* C18 witness: a page modified by deleteRecord was released by the page
\* advance of scanNext, which said dirty.
C18_Witness ==
    /\ lastOp = "scanNext" /\ status = "OK" /\ hf.hdrDirtyFlag /\ ~hf.curDirtyFlag
    /\ ReleasedDirty(unpins, FirstDataPage) /\ hf.curPageNo # FirstDataPage
    /\ LiveSlots(pages[FirstDataPage]) = {}


\* C19: FILEEOF is stable: a scanNext that follows a scanNext which returned
\* FILEEOF returns FILEEOF too and calls unPinPage on no page that is not pinned.
C19_EofStable ==
    [][(lastOp = "scanNext" /\ status = "FILEEOF" /\ lastOp' = "scanNext") =>
         /\ status' = "FILEEOF"
         /\ \A i \in 1 .. Len(unpins') : unpins'[i].status # "PAGENOTPINNED"]_vars


\* C20: a deleteRecord that returns a status other than OK leaves
\* headerPage.recCnt, hdrDirtyFlag and curDirtyFlag as they were.
C20_FailedDeleteChangesNothing ==
    [][(lastOp' = "deleteRecord" /\ status' # "OK") =>
         /\ hdr'.recCnt = hdr.recCnt
         /\ hf'.hdrDirtyFlag = hf.hdrDirtyFlag
         /\ hf'.curDirtyFlag = hf.curDirtyFlag]_vars

====
